---- MODULE Spec2Model ----
(***************************************************************************)
(* The GRUB "search" command (commands/search.c): grub_cmd_search, its two *)
(* matchers search_fs and search_file, and their nested per-device tests   *)
(* iterate_device, run by the device enumerator grub_device_iterate.       *)
(*                                                                         *)
(* C strings are sequences of one-character strings; the terminating NUL   *)
(* is the character NUL.  A pointer is NULL or the value it points to.     *)
(***************************************************************************)
EXTENDS Integers, Sequences, FiniteSets, TLC

\* ------------------------------------------------------------------ bounds
\* Longest device enumeration explored.
MaxDevs == 2

\* ------------------------------------------------------------ C strings
NULL == "NULL"
NUL == "\\0"

\* Character codes of the characters that occur in the explored strings.
Code(c) ==
  CASE c = NUL -> 0
    [] c = "(" -> 40
    [] c = ")" -> 41
    [] c = "/" -> 47
    [] c = "0" -> 48
    [] c = "9" -> 57
    [] c = ":" -> 58
    [] c = "A" -> 65
    [] c = "B" -> 66
    [] c = "a" -> 97
    [] c = "d" -> 100
    [] c = "f" -> 102
    [] c = "h" -> 104

\* s[k] of a NUL-terminated C string (k counts from 0; k <= strlen).
CharAt(s, k) == IF k < Len(s) THEN s[k + 1] ELSE NUL

grub_strlen(s) == Len(s)

\* grub_strcmp: 0 iff the two strings are equal byte for byte.
RECURSIVE grub_strcmp(_, _)
grub_strcmp(a, b) ==
  IF CharAt(a, 0) # CharAt(b, 0) THEN Code(CharAt(a, 0)) - Code(CharAt(b, 0))
  ELSE IF CharAt(a, 0) = NUL THEN 0
  ELSE grub_strcmp(Tail(a), Tail(b))

\* ------------------------------------------------------- explored inputs
StrEmpty == << >>
StrA == <<"/", "A">>
StrB == <<"/", "B">>

hd0 == <<"h", "d", "0">>
fd0 == <<"f", "d", "0">>
fd == <<"f", "d">>

DevNames == {hd0, fd0, fd}
Keys == {StrEmpty, StrA}

\* What a label / UUID accessor of a filesystem does: the function pointer is
\* absent ("noacc"), the call fails and sets grub_errno ("err"), the call
\* succeeds and yields no string ("null"), or it yields the string str.
NoAcc == [kind |-> "noacc", str |-> StrEmpty]
AccErr == [kind |-> "err", str |-> StrEmpty]
AccNull == [kind |-> "null", str |-> StrEmpty]
AccStr(s) == [kind |-> "str", str |-> s]

\* The contents of a device, as the external collaborators see them:
\* canOpen - grub_device_open succeeds; fs - grub_fs_probe recognises a
\* filesystem; label, uuid - its accessors; files - the paths that exist.
DevKinds ==
  { [canOpen |-> FALSE, fs |-> FALSE, label |-> NoAcc, uuid |-> NoAcc, files |-> {}],
    [canOpen |-> TRUE, fs |-> FALSE, label |-> NoAcc, uuid |-> NoAcc, files |-> {}],
    [canOpen |-> TRUE, fs |-> TRUE, label |-> AccStr(StrA), uuid |-> AccStr(StrB),
     files |-> {StrA}],
    [canOpen |-> TRUE, fs |-> TRUE, label |-> NoAcc, uuid |-> AccStr(StrA), files |-> {}],
    [canOpen |-> TRUE, fs |-> TRUE, label |-> AccErr, uuid |-> AccNull, files |-> {StrA}],
    [canOpen |-> TRUE, fs |-> TRUE, label |-> AccStr(StrEmpty), uuid |-> AccErr,
     files |-> {StrB}] }

Device(n, k) ==
  [name |-> n, canOpen |-> k.canOpen, fs |-> k.fs, label |-> k.label,
   uuid |-> k.uuid, files |-> k.files]

Devices == {Device(n, k) : n \in DevNames, k \in DevKinds}

\* The enumerations: sequences of at most MaxDevs devices with distinct names.
DeviceLists ==
  {ds \in UNION {[1..n -> Devices] : n \in 0..MaxDevs} :
     \A a, b \in DOMAIN ds : a # b => ds[a].name # ds[b].name}

\* The parsed command line: argc/args are the positional arguments, the
\* other fields are the option table `state' indexed as enum options
\* (file, label, uuid: .set of the mode flags; set/arg: .set and .arg of
\* SEARCH_SET, whose argument is optional; no_floppy: .set of SEARCH_NO_FLOPPY).
SetOptions ==
  {[set |-> FALSE, arg |-> NULL], [set |-> TRUE, arg |-> NULL],
   [set |-> TRUE, arg |-> "v"]}

ArgLists == {<< >>} \cup {<<k>> : k \in Keys}

Invocations ==
  {[argc |-> Len(as), args |-> as, file |-> f, label |-> l, uuid |-> u,
    set |-> so.set, arg |-> so.arg, no_floppy |-> n] :
     as \in ArgLists, f \in BOOLEAN, l \in BOOLEAN, u \in BOOLEAN,
     n \in BOOLEAN, so \in SetOptions}

\* The names the variable store is observed at.
VarNames == {"root", "v"}

\* --------------------------------------------------------------- state
VARIABLES
  devs,         \* the devices the enumerator yields, in order
  inv,          \* the command line of the invocation
  pc,           \* position of control
  var,          \* grub_cmd_search: var, passed to the matcher
  key,          \* matcher parameter key (args[0])
  no_floppy,    \* matcher parameter no_floppy
  is_uuid,      \* search_fs parameter is_uuid
  matcher,      \* which matcher was called: "none", "fs", "file"
  i,            \* enumerator: index of the device being visited
  count,        \* matcher local count
  abort,        \* iterate_device local abort
  hookret,      \* value the per-device test returned to the enumerator
  grub_errno,   \* the global pending error code
  grub_errmsg,  \* the global pending error message
  buf,          \* search_file local buf
  handles,      \* device and file handles currently open
  out,          \* identifiers written by grub_printf, in order
  env,          \* the variable store
  envlog,       \* the grub_env_set calls made, in order
  log,          \* the external calls made on devices, in order
  ret,          \* value returned by grub_cmd_search
  prev          \* what the previous invocation of the same command produced

vars ==
  <<devs, inv, pc, var, key, no_floppy, is_uuid, matcher, i, count, abort,
    hookret, grub_errno, grub_errmsg, buf, handles, out, env, envlog, log, ret,
    prev>>

NoMsg == [text |-> "", arg |-> StrEmpty]
NoBuf == [alloc |-> FALSE, over |-> FALSE, bytes |-> << >>]

\* No previous invocation: this is run 1.
NoPrev ==
  [run |-> 1, out |-> << >>, envlog |-> << >>, env |-> << >>,
   ret |-> "GRUB_ERR_NONE", msg |-> NoMsg, failAt |-> 0]

Init ==
  /\ devs \in DeviceLists
  /\ inv \in Invocations
  /\ pc = "cmd"
  /\ var = NULL
  /\ key = StrEmpty
  /\ no_floppy = FALSE
  /\ is_uuid = 0
  /\ matcher = "none"
  /\ i = 0
  /\ count = 0
  /\ abort = 0
  /\ hookret = 0
  /\ grub_errno = "GRUB_ERR_NONE"
  /\ grub_errmsg = NoMsg
  /\ buf = NoBuf
  /\ handles = {}
  /\ out = << >>
  /\ env = [v \in VarNames |-> NULL]
  /\ envlog = << >>
  /\ log = << >>
  /\ ret = "GRUB_ERR_NONE"
  /\ prev = NoPrev

\* grub_error (code, fmt, arg): records the error as the pending one.
grub_error(code, text, arg) ==
  /\ grub_errno' = code
  /\ grub_errmsg' = [text |-> text, arg |-> arg]

\* ------------------------------------------------------ grub_cmd_search
\* Faulty variant: the argument of -s is ignored.
SearchVar_root_only(st) == IF st.set THEN "root" ELSE NULL

\* var: NULL without -s, the option's argument with -s=VAR, "root" with -s.
SearchVar(st) ==
  IF st.set THEN (IF st.arg # NULL THEN st.arg ELSE "root") ELSE NULL

\* Faulty variant: the chain tests the flags in the opposite order.
SearchType_file_first(st) ==
  IF st.file THEN "file"
  ELSE IF st.uuid THEN "uuid"
  ELSE IF st.label THEN "label"
  ELSE "none"

\* Faulty variant: only the file flag is looked at.
SearchType_file_only(st) == IF st.file THEN "file" ELSE "none"

\* The if / else-if chain that picks the matcher from the mode flags.
SearchType(st) ==
  IF st.label THEN "label"
  ELSE IF st.uuid THEN "uuid"
  ELSE IF st.file THEN "file"
  ELSE "none"

\* Entering the matcher: its parameters and its locals count = 0, buf = 0.
CallMatcher(m, k, v, nf, u) ==
  /\ matcher' = m
  /\ key' = k
  /\ var' = v
  /\ no_floppy' = nf
  /\ is_uuid' = u
  /\ count' = 0
  /\ buf' = NoBuf
  /\ i' = 1
  /\ pc' = "iterate"
  /\ UNCHANGED <<grub_errno, grub_errmsg, ret>>

\* Faulty variant: the argument count is not checked.
NoArgument_unchecked(argc) == argc < 0

\* if (argc == 0)
NoArgument(argc) == argc = 0

\* args[0]: the key; the argument vector of an empty command line holds no
\* string.
Arg0(args) == IF Len(args) > 0 THEN args[1] ELSE StrEmpty

grub_cmd_search ==
  /\ pc = "cmd"
  /\ IF NoArgument(inv.argc)
       THEN /\ grub_error("GRUB_ERR_INVALID_COMMAND", "no argument specified", StrEmpty)
            /\ ret' = "GRUB_ERR_INVALID_COMMAND"
            /\ pc' = "done"
            /\ UNCHANGED <<var, key, no_floppy, is_uuid, matcher, i, count, buf>>
       ELSE LET v == SearchVar(inv)
                t == SearchType(inv)
            IN CASE t = "label" -> CallMatcher("fs", Arg0(inv.args), v, inv.no_floppy, 0)
                 [] t = "uuid" -> CallMatcher("fs", Arg0(inv.args), v, inv.no_floppy, 1)
                 [] t = "file" -> CallMatcher("file", Arg0(inv.args), v, inv.no_floppy, 0)
                 [] OTHER ->
                      /\ grub_error("GRUB_ERR_INVALID_COMMAND", "unspecified search type",
                                    StrEmpty)
                      /\ ret' = "GRUB_ERR_INVALID_COMMAND"
                      /\ pc' = "done"
                      /\ var' = v
                      /\ UNCHANGED <<key, no_floppy, is_uuid, matcher, i, count, buf>>
  /\ UNCHANGED <<prev, devs, inv, abort, hookret, handles, out, env, envlog, log>>

\* -------------------------------------------------- grub_device_iterate
\* The enumerator calls the per-device test on the next device, in order.
grub_device_iterate ==
  /\ pc = "iterate"
  /\ IF i <= Len(devs)
       THEN pc' = (IF matcher = "fs" THEN "fs_test" ELSE "file_test")
       ELSE pc' = "end"
  /\ UNCHANGED <<prev, devs, inv, var, key, no_floppy, is_uuid, matcher, i, count, abort,
                 hookret, grub_errno, grub_errmsg, buf, handles, out, env, envlog,
                 log, ret>>

\* The per-device test has returned: a non-zero value stops the enumeration.
grub_device_iterate_next ==
  /\ pc = "hook_ret"
  /\ IF hookret # 0
       THEN pc' = "end" /\ i' = i
       ELSE pc' = "iterate" /\ i' = i + 1
  /\ UNCHANGED <<prev, devs, inv, var, key, no_floppy, is_uuid, matcher, count, abort,
                 hookret, grub_errno, grub_errmsg, buf, handles, out, env, envlog,
                 log, ret>>

Logged(op) == Append(log, [op |-> op, dev |-> i])

\* ------------------------------------------- search_fs / iterate_device
\* Faulty variant: the character after "fd" is not required to be a digit.
fs_skip_floppy_any_fd(nf, name) ==
  /\ nf
  /\ CharAt(name, 0) = "f"
  /\ CharAt(name, 1) = "d"

\* Skip floppy drives when requested.
fs_skip_floppy(nf, name) ==
  /\ nf
  /\ CharAt(name, 0) = "f"
  /\ CharAt(name, 1) = "d"
  /\ Code(CharAt(name, 2)) >= Code("0")
  /\ Code(CharAt(name, 2)) <= Code("9")

\* abort = 0; the floppy test; dev = grub_device_open (name).
fs_iterate_device ==
  /\ pc = "fs_test"
  /\ abort' = 0
  /\ IF fs_skip_floppy(no_floppy, devs[i].name)
       THEN /\ hookret' = 0
            /\ pc' = "hook_ret"
            /\ log' = Logged("test")
            /\ UNCHANGED <<grub_errno, grub_errmsg, handles>>
       ELSE /\ log' = log \o <<[op |-> "test", dev |-> i], [op |-> "dev_open", dev |-> i]>>
            /\ UNCHANGED hookret
            /\ IF devs[i].canOpen
                 THEN /\ handles' = handles \cup {[kind |-> "dev", dev |-> i]}
                      /\ pc' = "fs_probe"
                      /\ UNCHANGED <<grub_errno, grub_errmsg>>
                 ELSE /\ grub_error("GRUB_ERR_UNKNOWN_DEVICE", "no such disk", StrEmpty)
                      /\ pc' = "fs_ret"
                      /\ UNCHANGED handles
  /\ UNCHANGED <<prev, devs, inv, var, key, no_floppy, is_uuid, matcher, i, count, buf,
                 out, env, envlog, ret>>

\* QUID(fs): the uuid accessor when is_uuid, the label accessor otherwise.
QUID(d, u) == IF u # 0 THEN d.uuid ELSE d.label

\* grub_errno after fs = grub_fs_probe (dev) and, if fs && QUID(fs), the call
\* (QUID(fs)) (dev, &quid), starting from the pending error e.
fs_errno(d, u, e) ==
  IF ~d.fs THEN "GRUB_ERR_UNKNOWN_FS"
  ELSE IF QUID(d, u).kind = "err" THEN "GRUB_ERR_BAD_FS"
  ELSE e

\* Faulty variant: the retrieved string is not compared with the key.
fs_found_any(d, u, k, e) ==
  /\ d.fs
  /\ QUID(d, u).kind # "noacc"
  /\ fs_errno(d, u, e) = "GRUB_ERR_NONE"
  /\ QUID(d, u).kind = "str"

\* The nested conditions that lead to "Found!": a filesystem with the
\* accessor, no error pending after the call, a string, equal to key.
fs_found(d, u, k, e) ==
  /\ d.fs
  /\ QUID(d, u).kind # "noacc"
  /\ fs_errno(d, u, e) = "GRUB_ERR_NONE"
  /\ QUID(d, u).kind = "str"
  /\ grub_strcmp(QUID(d, u).str, k) = 0

\* Faulty variant: a match in binding mode does not stop the enumeration.
fs_found_abort_never(v, a) == a

\* abort after a match: 1 when a variable was given, else unchanged.
fs_found_abort(v, a) == IF v # NULL THEN 1 ELSE a

\* fs = grub_fs_probe (dev) up to grub_free (quid).
fs_probe ==
  /\ pc = "fs_probe"
  /\ LET d == devs[i]
         e == fs_errno(d, is_uuid, grub_errno)
     IN /\ log' = (IF d.fs /\ QUID(d, is_uuid).kind # "noacc"
                     THEN log \o <<[op |-> "probe", dev |-> i], [op |-> "quid", dev |-> i]>>
                     ELSE Logged("probe"))
        /\ grub_errno' = e
        /\ grub_errmsg' = (IF e = grub_errno THEN grub_errmsg
                           ELSE [text |-> "probe", arg |-> StrEmpty])
        /\ IF fs_found(d, is_uuid, key, grub_errno)
             THEN /\ count' = count + 1
                  /\ abort' = fs_found_abort(var, abort)
                  /\ IF var # NULL
                       THEN /\ env' = [env EXCEPT ![var] = d.name]
                            /\ envlog' = Append(envlog, [var |-> var, val |-> d.name])
                            /\ UNCHANGED out
                       ELSE /\ out' = Append(out, d.name)
                            /\ UNCHANGED <<env, envlog>>
             ELSE UNCHANGED <<count, abort, out, env, envlog>>
  /\ pc' = "fs_ret"
  /\ UNCHANGED <<prev, devs, inv, var, key, no_floppy, is_uuid, matcher, i, hookret, buf,
                 handles, ret>>

\* Faulty variant: the device is left open.
fs_close_never(hs, j) == hs

\* if (dev) { ... grub_device_close (dev); }
fs_close(hs, j) == hs \ {[kind |-> "dev", dev |-> j]}

\* Faulty variant: the pending error is left as it is.
fs_errno_kept(e) == e

\* grub_errno = GRUB_ERR_NONE at the end of the per-device test.
fs_errno_at_return(e) == "GRUB_ERR_NONE"

\* grub_device_close (dev) if it was opened; grub_errno = GRUB_ERR_NONE;
\* return abort.
fs_return ==
  /\ pc = "fs_ret"
  /\ handles' = fs_close(handles, i)
  /\ grub_errno' = fs_errno_at_return(grub_errno)
  /\ UNCHANGED grub_errmsg
  /\ hookret' = abort
  /\ pc' = "hook_ret"
  /\ UNCHANGED <<prev, devs, inv, var, key, no_floppy, is_uuid, matcher, i, count, abort,
                 buf, out, env, envlog, log, ret>>

\* Faulty variant: the matcher reports the other matcher's message.
fs_message_swapped == "no such file: %s"

\* The format of the error search_fs raises.
fs_message == "no such device: %s"

\* Faulty variant: the test of the match count is inverted.
fs_not_found_inverted(c, e) == c # 0

\* Faulty variant: a pending error keeps NotFound from being raised.
fs_not_found_unless_pending(c, e) == e = "GRUB_ERR_NONE" /\ c = 0

\* After the enumeration: if (count == 0) grub_error (...); then
\* grub_cmd_search returns grub_errno.
fs_not_found(c, e) == c = 0

search_fs_end ==
  /\ pc = "end"
  /\ matcher = "fs"
  /\ IF fs_not_found(count, grub_errno)
       THEN /\ grub_error("GRUB_ERR_FILE_NOT_FOUND", fs_message, key)
            /\ ret' = "GRUB_ERR_FILE_NOT_FOUND"
       ELSE /\ UNCHANGED <<grub_errno, grub_errmsg>>
            /\ ret' = grub_errno
  /\ pc' = "done"
  /\ UNCHANGED <<prev, devs, inv, var, key, no_floppy, is_uuid, matcher, i, count, abort,
                 hookret, buf, handles, out, env, envlog, log>>

\* ----------------------------------------- search_file / iterate_device
\* Skip floppy drives when requested.
file_skip_floppy(nf, name) ==
  /\ nf
  /\ CharAt(name, 0) = "f"
  /\ CharAt(name, 1) = "d"
  /\ Code(CharAt(name, 2)) >= Code("0")
  /\ Code(CharAt(name, 2)) <= Code("9")

\* Faulty variant: no room for the terminating NUL.
file_len_unterminated(name, k) == grub_strlen(name) + 2 + grub_strlen(k)

\* len = grub_strlen (name) + 2 + grub_strlen (key) + 1
file_len(name, k) == grub_strlen(name) + 2 + grub_strlen(k) + 1

\* A byte of allocated memory that was never written.
Junk == "?"

\* grub_realloc (buf, len) when it succeeds: len bytes, of which the first
\* min (old size, len) keep their contents.
grub_realloc(b, len) ==
  [alloc |-> TRUE, over |-> b.over,
   bytes |-> [n \in 1..len |-> IF n <= Len(b.bytes) THEN b.bytes[n] ELSE Junk]]

\* grub_sprintf (buf, "(%s)%s", name, key): the formatted characters and the
\* terminating NUL, written from the start of the buffer; over records a
\* write past the end of the allocation.
grub_sprintf(b, name, k) ==
  LET str == <<"(">> \o name \o <<")">> \o k \o <<NUL>>
  IN [alloc |-> b.alloc,
      over |-> b.over \/ Len(str) > Len(b.bytes),
      bytes |-> [n \in 1..Len(b.bytes) |-> IF n <= Len(str) THEN str[n] ELSE b.bytes[n]]]

\* The C string that starts at the buffer: the bytes before the first NUL.
RECURSIVE CStr(_)
CStr(bytes) ==
  IF bytes = << >> \/ Head(bytes) = NUL THEN << >>
  ELSE <<Head(bytes)>> \o CStr(Tail(bytes))

\* Position of the first c in s, 0 if there is none.
RECURSIVE grub_strchr(_, _)
grub_strchr(s, c) ==
  IF s = << >> THEN 0
  ELSE IF Head(s) = c THEN 1
  ELSE LET r == grub_strchr(Tail(s), c) IN IF r = 0 THEN 0 ELSE r + 1

\* grub_file_open (path): the path names a device in parentheses and a file
\* on it; the open succeeds iff that device can be opened, carries a
\* filesystem and the file exists there.
grub_file_open(path) ==
  LET p == grub_strchr(path, ")")
  IN /\ CharAt(path, 0) = "("
     /\ p # 0
     /\ \E j \in DOMAIN devs :
          /\ devs[j].name = SubSeq(path, 2, p - 1)
          /\ devs[j].canOpen
          /\ devs[j].fs
          /\ SubSeq(path, p + 1, Len(path)) \in devs[j].files

\* Whether grub_realloc succeeds for device i: either outcome in a first
\* invocation; in a repeated one the allocator behaves as it did before.
AllocOutcomes == IF prev.run = 1 THEN BOOLEAN ELSE {prev.failAt # i}

\* abort = 0; the floppy test; the path buffer is grown and filled.
file_iterate_device ==
  /\ pc = "file_test"
  /\ abort' = 0
  /\ log' = Logged("test")
  /\ IF file_skip_floppy(no_floppy, devs[i].name)
       THEN /\ hookret' = 0
            /\ pc' = "hook_ret"
            /\ UNCHANGED <<grub_errno, grub_errmsg, buf>>
       ELSE \E ok \in AllocOutcomes :
              IF ~ok
                THEN /\ grub_error("GRUB_ERR_OUT_OF_MEMORY", "out of memory", StrEmpty)
                     /\ hookret' = 1
                     /\ pc' = "hook_ret"
                     /\ UNCHANGED buf
                ELSE /\ buf' = grub_sprintf(grub_realloc(buf, file_len(devs[i].name, key)),
                                            devs[i].name, key)
                     /\ pc' = "file_open"
                     /\ UNCHANGED <<hookret, grub_errno, grub_errmsg>>
  /\ UNCHANGED <<prev, devs, inv, var, key, no_floppy, is_uuid, matcher, i, count, handles,
                 out, env, envlog, ret>>

\* file = grub_file_open (buf)
file_open ==
  /\ pc = "file_open"
  /\ log' = Logged("file_open")
  /\ IF grub_file_open(CStr(buf.bytes))
       THEN /\ handles' = handles \cup {[kind |-> "file", dev |-> i]}
            /\ pc' = "file_found"
            /\ UNCHANGED <<grub_errno, grub_errmsg>>
       ELSE /\ grub_error("GRUB_ERR_FILE_NOT_FOUND", "file not found", StrEmpty)
            /\ pc' = "file_ret"
            /\ UNCHANGED handles
  /\ UNCHANGED <<prev, devs, inv, var, key, no_floppy, is_uuid, matcher, i, count, abort,
                 hookret, buf, out, env, envlog, ret>>

\* Faulty variant: a match in binding mode does not stop the enumeration.
file_found_abort_never(v, a) == a

\* abort after a match: 1 when a variable was given, else unchanged.
file_found_abort(v, a) == IF v # NULL THEN 1 ELSE a

\* Found!  count++; bind or print; grub_file_close (file).
file_found ==
  /\ pc = "file_found"
  /\ count' = count + 1
  /\ abort' = file_found_abort(var, abort)
  /\ IF var # NULL
       THEN /\ env' = [env EXCEPT ![var] = devs[i].name]
            /\ envlog' = Append(envlog, [var |-> var, val |-> devs[i].name])
            /\ UNCHANGED out
       ELSE /\ out' = Append(out, devs[i].name)
            /\ UNCHANGED <<env, envlog>>
  /\ handles' = handles \ {[kind |-> "file", dev |-> i]}
  /\ pc' = "file_ret"
  /\ UNCHANGED <<prev, devs, inv, var, key, no_floppy, is_uuid, matcher, i, hookret,
                 grub_errno, grub_errmsg, buf, log, ret>>

\* grub_errno = GRUB_ERR_NONE; return abort.
file_return ==
  /\ pc = "file_ret"
  /\ grub_errno' = "GRUB_ERR_NONE"
  /\ UNCHANGED grub_errmsg
  /\ hookret' = abort
  /\ pc' = "hook_ret"
  /\ UNCHANGED <<prev, devs, inv, var, key, no_floppy, is_uuid, matcher, i, count, abort,
                 buf, handles, out, env, envlog, log, ret>>

\* The format of the error search_file raises.
file_message == "no such file: %s"

\* Faulty variant: the pending error is not looked at before raising NotFound.
file_not_found_count_only(c, e) == c = 0

\* After the enumeration: grub_free (buf); if (grub_errno == GRUB_ERR_NONE
\* && count == 0) grub_error (...); then grub_cmd_search returns grub_errno.
file_not_found(c, e) == e = "GRUB_ERR_NONE" /\ c = 0

search_file_end ==
  /\ pc = "end"
  /\ matcher = "file"
  /\ buf' = NoBuf
  /\ IF file_not_found(count, grub_errno)
       THEN /\ grub_error("GRUB_ERR_FILE_NOT_FOUND", file_message, key)
            /\ ret' = "GRUB_ERR_FILE_NOT_FOUND"
       ELSE /\ UNCHANGED <<grub_errno, grub_errmsg>>
            /\ ret' = grub_errno
  /\ pc' = "done"
  /\ UNCHANGED <<prev, devs, inv, var, key, no_floppy, is_uuid, matcher, i, count, abort,
                 hookret, handles, out, env, envlog, log>>

\* ------------------------------------------------------- specification
Next ==
  \/ grub_cmd_search
  \/ grub_device_iterate
  \/ grub_device_iterate_next
  \/ fs_iterate_device
  \/ fs_probe
  \/ fs_return
  \/ search_fs_end
  \/ file_iterate_device
  \/ file_open
  \/ file_found
  \/ file_return
  \/ search_file_end

Spec == Init /\ [][Next]_vars

\* The caller runs the same command once more after it has returned, over
\* the same devices: the locals are fresh, what was printed and bound by the
\* first run is set aside for comparison, the variable store stays as the
\* first run left it, and the pending error is either still the one the
\* first run returned or has been cleared by the caller.
Rerun ==
  /\ pc = "done"
  /\ prev.run = 1
  /\ prev' = [run |-> 2, out |-> out, envlog |-> envlog, env |-> env, ret |-> ret,
              msg |-> grub_errmsg,
              failAt |-> IF grub_errno = "GRUB_ERR_OUT_OF_MEMORY" THEN i ELSE 0]
  /\ grub_errno' \in {grub_errno, "GRUB_ERR_NONE"}
  /\ pc' = "cmd"
  /\ var' = NULL
  /\ key' = StrEmpty
  /\ no_floppy' = FALSE
  /\ is_uuid' = 0
  /\ matcher' = "none"
  /\ i' = 0
  /\ count' = 0
  /\ abort' = 0
  /\ hookret' = 0
  /\ buf' = NoBuf
  /\ out' = << >>
  /\ envlog' = << >>
  /\ log' = << >>
  /\ ret' = "GRUB_ERR_NONE"
  /\ UNCHANGED <<devs, inv, grub_errmsg, handles, env>>

\* One invocation, or two in a row.
NextTwice ==
  \/ Next
  \/ Rerun

\* The invocations that are repeated: at most one mode option given (with
\* several, the dispatch runs the same matcher as with the first of them).
InitTwice ==
  /\ Init
  /\ ~(inv.file /\ inv.label)
  /\ ~(inv.file /\ inv.uuid)
  /\ ~(inv.label /\ inv.uuid)

SpecTwice == InitTwice /\ [][NextTwice]_vars

\* ------------------------------------------------ vocabulary of the claims
Digits == {"0", "1", "2", "3", "4", "5", "6", "7", "8", "9"}

\* The identifier fits the floppy pattern: "fd" followed by a decimal digit.
FitsFloppy(name) ==
  /\ Len(name) >= 3
  /\ name[1] = "f"
  /\ name[2] = "d"
  /\ name[3] \in Digits

\* The search the command line asks for.
Binding == inv.set
Started == matcher # "none"
CmdKey == inv.args[1]

\* Device d has the tested attribute equal to the key: the file is present
\* (file mode), the label equals the key (label mode), the UUID equals the
\* key (UUID mode).
Matches(d) ==
  /\ d.canOpen
  /\ d.fs
  /\ CASE matcher = "file" -> CmdKey \in d.files
       [] matcher = "fs" /\ is_uuid = 0 -> d.label.kind = "str" /\ d.label.str = CmdKey
       [] matcher = "fs" /\ is_uuid = 1 -> d.uuid.kind = "str" /\ d.uuid.str = CmdKey
       [] OTHER -> FALSE

\* Device d is excluded by the floppy filter of this invocation.
Excluded(d) == inv.no_floppy /\ FitsFloppy(d.name)

\* The j-th enumerated device passes the floppy filter and matches.
Cand(j) == ~Excluded(devs[j]) /\ Matches(devs[j])

\* The identifiers of the devices among the first n that pass the filter and
\* match, in enumeration order.
RECURSIVE CandNames(_)
CandNames(n) ==
  IF n = 0 THEN << >>
  ELSE IF Cand(n) THEN Append(CandNames(n - 1), devs[n].name)
  ELSE CandNames(n - 1)

\* The search ended because growing the path buffer failed.
AllocFailed == grub_errno = "GRUB_ERR_OUT_OF_MEMORY"

\* The pending error is the NotFound raised by the matcher at its end.
NotFoundRaised(e, m) ==
  /\ e = "GRUB_ERR_FILE_NOT_FOUND"
  /\ m.text \in {"no such device: %s", "no such file: %s"}

\* ------------------------------------------------------------------ C1
\* C1: in binding mode (-s) at most one variable write happens; the value
\* written is the identifier of the first device, in enumeration order, that
\* passes the floppy filter and matches; and no device after that one is
\* tested: no per-device test, device open, probe or file open is made on it.
C1_FirstMatchBound ==
  (Binding /\ Started) =>
    /\ Len(envlog) <= 1
    /\ Len(envlog) = 1 =>
         \E j \in DOMAIN devs :
           /\ Cand(j)
           /\ \A k \in 1..(j - 1) : ~Cand(k)
           /\ envlog[1].val = devs[j].name
           /\ env[envlog[1].var] = devs[j].name
           /\ \A n \in DOMAIN log : log[n].dev <= j

\* A binding search has returned having bound the first of two matching
\* devices; the second was left untested.
C1_Witness ==
  /\ pc = "done"
  /\ Binding
  /\ Len(devs) = 2
  /\ Cand(1)
  /\ Cand(2)
  /\ Len(envlog) = 1
  /\ envlog[1].val = devs[1].name

\* ------------------------------------------------------------------ C2
\* C2 as stated: when a non-binding search has returned, the identifiers
\* emitted are exactly, in order, those of the enumerated devices that pass
\* the floppy filter and match.
C2_EmittedAllMatches ==
  (pc = "done" /\ ~Binding /\ Started) => out = CandNames(Len(devs))

\* C2 amended: the emitted identifiers are at every moment exactly, in order,
\* the filtered matching devices among those whose test has completed; when
\* the search returns these are all the enumerated devices, unless growing
\* the path buffer failed (file mode), in which case they are the devices
\* before the one the allocation failed for.
TestsCompleted ==
  IF pc \in {"hook_ret", "end", "done"}
    THEN (IF AllocFailed /\ hookret # 0 THEN i - 1 ELSE IF i > Len(devs) THEN Len(devs) ELSE i)
    ELSE IF pc \in {"fs_ret", "file_ret"} THEN i
    ELSE IF i = 0 THEN 0 ELSE i - 1

C2_EmittedMatchesTested ==
  (~Binding /\ Started) =>
    /\ out = CandNames(TestsCompleted)
    /\ (pc = "done" /\ ret # "GRUB_ERR_OUT_OF_MEMORY") => out = CandNames(Len(devs))
    /\ (pc = "done" /\ ret = "GRUB_ERR_OUT_OF_MEMORY") =>
         matcher = "file" /\ out = CandNames(i - 1)

\* A non-binding search has returned after a device that does not match and
\* one that does: only the second was emitted.
C2_Witness ==
  /\ pc = "done"
  /\ ~Binding
  /\ Started
  /\ Len(devs) = 2
  /\ ~Cand(1)
  /\ Cand(2)
  /\ out = <<devs[2].name>>

\* ------------------------------------------------------------------ C3
\* C3: when the command has returned from a search in which no enumerated
\* device passes the filter and matches, and no allocation error was left
\* pending, it failed with NotFound (GRUB_ERR_FILE_NOT_FOUND and the
\* matcher's message), nothing was emitted and no variable was written.
C3_NoMatchNotFound ==
  (pc = "done" /\ Started /\ ~AllocFailed /\ \A j \in DOMAIN devs : ~Cand(j)) =>
    /\ ret = "GRUB_ERR_FILE_NOT_FOUND"
    /\ NotFoundRaised(grub_errno, grub_errmsg)
    /\ grub_errmsg.arg = CmdKey
    /\ out = << >>
    /\ envlog = << >>
    /\ env = [v \in VarNames |-> NULL]

\* A search over two devices, one unusable and one excluded although it
\* would match, has returned NotFound.
C3_Witness ==
  /\ pc = "done"
  /\ Started
  /\ Len(devs) = 2
  /\ \A j \in DOMAIN devs : ~Cand(j)
  /\ \E j \in DOMAIN devs : Matches(devs[j])
  /\ ret = "GRUB_ERR_FILE_NOT_FOUND"

\* ------------------------------------------------------------------ C4
\* C4: in the step that ends a search (file, label or UUID mode), NotFound
\* is raised if and only if the match count is zero and no error is pending;
\* an error pending at that moment is left as it is and is what the command
\* returns.
C4_EndStep ==
  (pc = "end" /\ pc' = "done") =>
    /\ (grub_errno' # grub_errno \/ grub_errmsg' # grub_errmsg)
         <=> (count = 0 /\ grub_errno = "GRUB_ERR_NONE")
    /\ (count = 0 /\ grub_errno = "GRUB_ERR_NONE") =>
         NotFoundRaised(grub_errno', grub_errmsg')
    /\ grub_errno # "GRUB_ERR_NONE" =>
         /\ ret' = grub_errno
         /\ ~NotFoundRaised(grub_errno', grub_errmsg')
    /\ ret' = grub_errno'

NoModeFlag == ~inv.file /\ ~inv.label /\ ~inv.uuid

C5_DefaultFileMode ==
  (pc = "done" /\ inv.argc > 0 /\ NoModeFlag) =>
    /\ matcher = "file"
    /\ key = CmdKey
    /\ ret # "GRUB_ERR_INVALID_COMMAND"

\* ------------------------------------------------------------------ C6
\* C6: whenever the command has returned the invocation error, the
\* enumerator was never invoked and no device or file was opened, no variable
\* written and nothing emitted; and a command line without key argument
\* always returns the invocation error, whatever the flags.
C6_InvalidBeforeDevices ==
  /\ (pc = "done" /\ ret = "GRUB_ERR_INVALID_COMMAND") =>
       /\ matcher = "none"
       /\ i = 0
       /\ log = << >>
       /\ handles = {}
       /\ out = << >>
       /\ envlog = << >>
       /\ env = [v \in VarNames |-> NULL]
  /\ (pc = "done" /\ inv.argc = 0) =>
       /\ ret = "GRUB_ERR_INVALID_COMMAND"
       /\ grub_errmsg.text = "no argument specified"
  /\ (inv.argc = 0 \/ NoModeFlag) => (log = << >> /\ matcher = "none" /\ pc \in {"cmd", "done"})

\* A command line with mode, -s and -n flags but no key has returned the
\* invocation error although a device is there to be searched.
C6_Witness ==
  /\ pc = "done"
  /\ inv.argc = 0
  /\ inv.label
  /\ inv.set
  /\ inv.no_floppy
  /\ Len(devs) > 0
  /\ ret = "GRUB_ERR_INVALID_COMMAND"

\* ------------------------------------------------------------------ C7
\* C7 as stated: a search whose key is present but is the empty string has
\* failed with the invocation error and run no matcher, in every mode.
EmptyKey == inv.argc > 0 /\ inv.args[1] = StrEmpty

C7_EmptyKeyRejected ==
  (pc = "done" /\ EmptyKey) =>
    /\ ret = "GRUB_ERR_INVALID_COMMAND"
    /\ matcher = "none"

\* C7 amended: a key that is present but empty is not rejected: when a mode
\* flag is given the matcher of that mode runs with the empty key, and the
\* command returns that search's result, never the invocation error.
C7_EmptyKeySearched ==
  (pc = "done" /\ EmptyKey /\ ~NoModeFlag) =>
    /\ Started
    /\ key = StrEmpty
    /\ ret # "GRUB_ERR_INVALID_COMMAND"

\* A label search with the empty key has returned success, having emitted the
\* device whose filesystem label is the empty string.
C7_Witness ==
  /\ pc = "done"
  /\ EmptyKey
  /\ matcher = "fs"
  /\ is_uuid = 0
  /\ Len(out) = 1
  /\ ret = "GRUB_ERR_NONE"

\* ------------------------------------------------------------------ C8
\* Identifiers around the edges of the floppy pattern.
PatternNames ==
  {<< >>, <<"f">>, fd, fd0, hd0, <<"f", "d", "9">>, <<"f", "d", "/">>,
   <<"f", "d", ":">>, <<"f", "d", "a">>, <<"f", "d", "0", "a">>, <<"h", "d">>,
   <<"d", "f", "0">>, <<"f", "a", "0">>}

\* The per-device test of device j has run and returned.
TestReturned(j) ==
  /\ \E n \in DOMAIN log : log[n].dev = j /\ log[n].op = "test"
  /\ j < i \/ pc \in {"hook_ret", "end", "done"}

\* C8: with -n a device whose identifier is "fd" followed by a digit is
\* never opened, probed or the subject of a file open, and never emitted or
\* bound, even if it matches; without -n such a device is tested like any
\* other and is emitted, or bound when it is the first match; an identifier
\* that does not fit the pattern (a shorter one included) is never skipped:
\* its test opens the device (label, UUID mode) or attempts the path buffer
\* allocation and file open (file mode).  Both matchers apply the same test.
C8_FloppyExclusion ==
  /\ (pc = "cmd" /\ devs = << >>) =>
       \A n \in PatternNames :
         /\ fs_skip_floppy(TRUE, n) <=> FitsFloppy(n)
         /\ file_skip_floppy(TRUE, n) <=> FitsFloppy(n)
         /\ ~fs_skip_floppy(FALSE, n)
         /\ ~file_skip_floppy(FALSE, n)
  /\ \A n \in DOMAIN log : Excluded(devs[log[n].dev]) => log[n].op = "test"
  /\ \A h \in handles : ~Excluded(devs[h.dev])
  /\ \A j \in DOMAIN devs :
       Excluded(devs[j]) =>
         /\ \A n \in DOMAIN out : out[n] # devs[j].name
         /\ \A n \in DOMAIN envlog : envlog[n].val # devs[j].name
  /\ \A j \in DOMAIN devs :
       (Started /\ TestReturned(j) /\ ~Excluded(devs[j])) =>
         /\ \E n \in DOMAIN log :
              /\ log[n].dev = j
              /\ \/ log[n].op = IF matcher = "fs" THEN "dev_open" ELSE "file_open"
                 \/ matcher = "file" /\ AllocFailed /\ j = i
         /\ (Matches(devs[j]) /\ ~(AllocFailed /\ j = i)) =>
              IF Binding
                THEN \E k \in 1..j : Cand(k) /\ envlog = <<[var |-> var, val |-> devs[k].name]>>
                ELSE \E n \in DOMAIN out : out[n] = devs[j].name

\* A search with -n has returned: the matching floppy fd0 was skipped and
\* the matching device after it, whose name does not fit the pattern, was
\* emitted.
C8_Witness ==
  /\ pc = "done"
  /\ inv.no_floppy
  /\ ~Binding
  /\ Len(devs) = 2
  /\ devs[1].name = fd0
  /\ Matches(devs[1])
  /\ devs[2].name = fd
  /\ out = <<fd>>

\* A search without -n has returned having emitted the matching floppy fd0.
C8_WitnessIncluded ==
  /\ pc = "done"
  /\ ~inv.no_floppy
  /\ \E n \in DOMAIN out : out[n] = fd0

\* ------------------------------------------------------------------ C9
\* The matches reported or bound so far.
Reported == Len(out) + Len(envlog)

\* C9 as stated: when an invocation that got past argument validation has
\* returned, either at least one match was reported or bound and it returned
\* success, or nothing was reported or bound and it returned an error.
C9_MatchesXorError ==
  (pc = "done" /\ Started) =>
    \/ Reported > 0 /\ ret = "GRUB_ERR_NONE"
    \/ Reported = 0 /\ ret # "GRUB_ERR_NONE"

\* C9 amended: the command never returns success with zero matches, and it
\* returns an error after having emitted or bound a match only in file mode
\* without -s, when growing the path buffer failed for a later device: it
\* then returns the allocation error and the matches emitted stay emitted.
C9_MatchesXorErrorUnlessAlloc ==
  (pc = "done" /\ Started) =>
    /\ Reported = count
    /\ ret = "GRUB_ERR_NONE" => Reported > 0
    /\ (ret # "GRUB_ERR_NONE" /\ Reported > 0) =>
         /\ ret = "GRUB_ERR_OUT_OF_MEMORY"
         /\ matcher = "file"
         /\ ~Binding
         /\ hookret = 1
    /\ (ret # "GRUB_ERR_NONE" /\ Reported = 0) =>
         ret \in {"GRUB_ERR_FILE_NOT_FOUND", "GRUB_ERR_OUT_OF_MEMORY"}

\* A file search without -s has returned the allocation error after having
\* emitted a match.
C9_Witness ==
  /\ pc = "done"
  /\ matcher = "file"
  /\ Len(out) = 1
  /\ ret = "GRUB_ERR_OUT_OF_MEMORY"

\* ----------------------------------------------------------------- C10
\* The variable -s names: its argument, "root" when it carries none.
BindingTarget == IF inv.arg # NULL THEN inv.arg ELSE "root"

\* C10 as stated: with -s nothing is ever emitted and the only variable
\* written is the binding target, written exactly once if some device matches
\* and never if none matches; without -s the variable store is unchanged.
C10_BindOrPrint ==
  /\ Binding =>
       /\ out = << >>
       /\ \A n \in DOMAIN envlog : envlog[n].var = BindingTarget
       /\ (pc = "done" /\ Started) =>
            Len(envlog) = IF \E j \in DOMAIN devs : Cand(j) THEN 1 ELSE 0
  /\ ~Binding => (envlog = << >> /\ env = [v \in VarNames |-> NULL])

\* C10 amended: as stated, except that the one write happens if some device
\* matches and the path buffer could be grown for every device up to the
\* first match; when that allocation fails before a match (file mode) the
\* search returns the allocation error without writing the variable.
C10_BindOrPrintUnlessAlloc ==
  /\ Binding =>
       /\ out = << >>
       /\ \A n \in DOMAIN envlog : envlog[n].var = BindingTarget
       /\ \A v \in VarNames : v # BindingTarget => env[v] = NULL
       /\ Len(envlog) <= 1
       /\ (pc = "done" /\ Started) =>
            /\ ~AllocFailed =>
                 Len(envlog) = IF \E j \in DOMAIN devs : Cand(j) THEN 1 ELSE 0
            /\ AllocFailed => (envlog = << >> /\ matcher = "file")
            /\ (\A j \in DOMAIN devs : ~Cand(j)) => envlog = << >>
  /\ ~Binding => (envlog = << >> /\ env = [v \in VarNames |-> NULL])

\* A search with -s=v has returned having written v, and only v, once.
C10_Witness ==
  /\ pc = "done"
  /\ Binding
  /\ inv.arg = "v"
  /\ Len(devs) = 2
  /\ Cand(1)
  /\ Cand(2)
  /\ envlog = <<[var |-> "v", val |-> devs[1].name]>>
  /\ env["root"] = NULL
  /\ out = << >>

\* ----------------------------------------------------------------- C11
\* More than one of -f, -l, -u is set.
SeveralModeFlags ==
  \/ inv.file /\ inv.label
  \/ inv.file /\ inv.uuid
  \/ inv.label /\ inv.uuid

\* C11 as stated: when more than one mode flag is selected, the command has
\* returned the invocation error without running a matcher or enumerating a
\* device.
C11_SeveralModesRejected ==
  (pc = "done" /\ inv.argc > 0 /\ SeveralModeFlags) =>
    /\ ret = "GRUB_ERR_INVALID_COMMAND"
    /\ matcher = "none"
    /\ log = << >>

\* C11 amended: selecting more than one mode flag is not an error: the
\* command runs exactly one matcher, label mode if -l is among the flags,
\* else UUID mode (-u with -f), with the given key, and returns that search's
\* result, never the invocation error.
C11_SeveralModesPriority ==
  (inv.argc > 0 /\ SeveralModeFlags /\ pc # "cmd") =>
    /\ matcher = "fs"
    /\ is_uuid = IF inv.label THEN 0 ELSE 1
    /\ key = CmdKey
    /\ pc = "done" => ret # "GRUB_ERR_INVALID_COMMAND"

\* A search with -f, -l and -u all set has returned success, having emitted
\* a device by its label although its UUID and files do not match the key.
C11_Witness ==
  /\ pc = "done"
  /\ inv.argc > 0
  /\ inv.file /\ inv.label /\ inv.uuid
  /\ Len(devs) = 1
  /\ devs[1].label = AccStr(CmdKey)
  /\ devs[1].uuid # AccStr(CmdKey)
  /\ CmdKey \notin devs[1].files
  /\ out = <<devs[1].name>>
  /\ ret = "GRUB_ERR_NONE"

\* ----------------------------------------------------------------- C12
\* C12: when a search has returned NotFound with zero matches, the error
\* carries the searched key and the message of the mode that ran: "no such
\* device: KEY" in label and UUID mode, "no such file: KEY" in file mode.
C12_NotFoundMessage ==
  (pc = "done" /\ Started /\ ret = "GRUB_ERR_FILE_NOT_FOUND") =>
    /\ count = 0
    /\ grub_errno = "GRUB_ERR_FILE_NOT_FOUND"
    /\ grub_errmsg.arg = CmdKey
    /\ matcher = "fs" => grub_errmsg.text = "no such device: %s"
    /\ matcher = "file" => grub_errmsg.text = "no such file: %s"

\* A UUID search over a device that could not be matched has returned
\* "no such device" with its key.
C12_Witness ==
  /\ pc = "done"
  /\ matcher = "fs"
  /\ is_uuid = 1
  /\ Len(devs) > 0
  /\ ret = "GRUB_ERR_FILE_NOT_FOUND"
  /\ grub_errmsg = [text |-> "no such device: %s", arg |-> StrA]

\* A file search has returned "no such file" with its key after a failed
\* file open on the last device.
C12_WitnessFile ==
  /\ pc = "done"
  /\ matcher = "file"
  /\ Len(devs) > 0
  /\ \E n \in DOMAIN log : log[n].op = "file_open" /\ log[n].dev = Len(devs)
  /\ grub_errmsg = [text |-> "no such file: %s", arg |-> StrA]

\* ----------------------------------------------------------------- C14
\* C14: at most one device or file handle is open at any moment; a handle
\* is open only inside the per-device test of the device it belongs to,
\* between its open and the end of that test; whenever a per-device test has
\* returned, and when the search has returned, no handle is open.
C14_HandlesClosed ==
  /\ Cardinality(handles) <= 1
  /\ \A h \in handles :
       /\ h.dev = i
       /\ h.kind = "dev" => (matcher = "fs" /\ pc \in {"fs_probe", "fs_ret"})
       /\ h.kind = "file" => (matcher = "file" /\ pc = "file_found")
  /\ pc \in {"cmd", "iterate", "fs_test", "file_test", "file_open", "file_ret",
             "hook_ret", "end", "done"} => handles = {}

\* The test of a device that was opened and whose attribute retrieval failed
\* has returned, with no handle open.
C14_Witness ==
  /\ pc = "hook_ret"
  /\ matcher = "fs"
  /\ devs[i].canOpen
  /\ devs[i].fs
  /\ QUID(devs[i], is_uuid).kind = "err"
  /\ \E n \in DOMAIN log : log[n].op = "quid" /\ log[n].dev = i
  /\ handles = {}

\* ----------------------------------------------------------------- C15
\* The error codes a failing per-device step leaves pending.
DeviceErrors == {"GRUB_ERR_UNKNOWN_DEVICE", "GRUB_ERR_UNKNOWN_FS", "GRUB_ERR_BAD_FS"}

\* Device j was handed to the per-device test.
Tested(j) == \E n \in DOMAIN log : log[n].op = "test" /\ log[n].dev = j

\* C15: a device that cannot be opened, carries no recognised filesystem,
\* lacks the accessor, fails to yield the attribute or yields none, or whose
\* file cannot be opened, counts as "no match, continue": its test returns 0
\* with no error pending, the enumeration goes on to the next device, and the
\* error such a failure raised is never what the command returns, whichever
\* device produced it.
C15_DeviceFailuresSwallowed ==
  Started =>
    /\ (pc = "hook_ret" /\ ~(AllocFailed /\ hookret = 1)) =>
         /\ grub_errno = "GRUB_ERR_NONE"
         /\ ~Matches(devs[i]) => hookret = 0
    /\ (pc \in {"end", "done"} /\ ~AllocFailed /\ ~(Binding /\ count > 0)) =>
         \A j \in DOMAIN devs : Tested(j)
    /\ pc \in {"end", "done"} =>
         /\ grub_errno \notin DeviceErrors
         /\ grub_errmsg.text \notin {"no such disk", "probe", "file not found"}
            \/ grub_errno = "GRUB_ERR_NONE"
    /\ pc = "done" =>
         /\ ret \notin DeviceErrors
         /\ ret = "GRUB_ERR_FILE_NOT_FOUND" =>
              grub_errmsg.text \in {"no such device: %s", "no such file: %s"}

\* A search has returned success after a first device that could not be
\* opened and a second one that matched.
C15_Witness ==
  /\ pc = "done"
  /\ Started
  /\ Len(devs) = 2
  /\ ~devs[1].canOpen
  /\ out = <<devs[2].name>>
  /\ ret = "GRUB_ERR_NONE"

\* A search has returned NotFound after a last device whose filesystem was
\* not recognised.
C15_WitnessLast ==
  /\ pc = "done"
  /\ matcher = "fs"
  /\ Len(devs) = 2
  /\ devs[2].canOpen
  /\ ~devs[2].fs
  /\ \E n \in DOMAIN log : log[n].op = "probe" /\ log[n].dev = 2
  /\ ret = "GRUB_ERR_FILE_NOT_FOUND"
  /\ grub_errmsg.text = "no such device: %s"

\* ----------------------------------------------------------------- C16
\* The count against what has been reported so far.
C16_CountState ==
  Started =>
    /\ Binding => (count = Len(envlog) /\ out = << >> /\ count <= 1)
    /\ ~Binding => (count = Len(out) /\ envlog = << >>)

\* One step of a search: the count does not decrease, and after a test has
\* returned the abort signal the enumeration ends without another test.
C16_CountStep ==
  /\ (Started /\ pc # "done") => count' >= count
  /\ (pc = "hook_ret" /\ hookret # 0) => (pc' = "end" /\ log' = log)
  /\ pc \in {"end", "done"} => log' = log

\* C16: throughout a search the match count never decreases and equals the
\* number of identifiers emitted so far (non-binding mode) or the number of
\* variable writes so far (binding mode); in binding mode it never exceeds
\* 1; once a test has returned the abort signal no test runs again.
C16_MatchCount == [](C16_CountState) /\ [][C16_CountStep]_vars

\* A binding search over two matching devices has returned with one write
\* and the second device never tested.
C16_Witness ==
  /\ pc = "done"
  /\ Started
  /\ Binding
  /\ Len(devs) = 2
  /\ Matches(devs[1]) /\ ~Excluded(devs[1])
  /\ Matches(devs[2]) /\ ~Excluded(devs[2])
  /\ count = 1
  /\ Len(envlog) = 1
  /\ ~Tested(2)

\* ----------------------------------------------------------------- C17
\* The path "(" X ")" K.
PathOf(name, k) == <<"(">> \o name \o <<")">> \o k

\* The buffer as one test leaves it for the next: grown and filled for
\* device name n0, starting from no buffer.
UsedBuf(n0, k) == grub_sprintf(grub_realloc(NoBuf, file_len(n0, k)), n0, k)

\* Buffer b holds exactly the path of device name n and key k, terminated,
\* within its len bytes.
PathBuilt(b, n, k) ==
  /\ CStr(b.bytes) = PathOf(n, k)
  /\ Len(b.bytes) = Len(n) + 2 + Len(k) + 1
  /\ Len(b.bytes) >= Len(PathOf(n, k)) + 1
  /\ b.bytes[Len(PathOf(n, k)) + 1] = NUL
  /\ ~b.over

\* C17: from the moment the path of device X is built until the test of X
\* returns, the buffer holds exactly "(" X ")" K followed by its terminator,
\* its size is length of X + 2 + length of K + 1, and no write went past the
\* allocation; this holds whatever name the buffer was last used for, longer
\* or shorter than X.
C17_PathConstruction ==
  /\ pc \in {"file_open", "file_found", "file_ret"} =>
       PathBuilt(buf, devs[i].name, CmdKey)
  /\ (pc = "cmd" /\ devs = << >>) =>
       \A n0 \in DevNames, n \in PatternNames, k \in Keys \cup {StrB} :
         /\ PathBuilt(UsedBuf(n, k), n, k)
         /\ PathBuilt(grub_sprintf(grub_realloc(UsedBuf(n0, k), file_len(n, k)), n, k), n, k)

\* The path of a second device with a shorter name than the first has been
\* built in the buffer the first device's path was built in.
C17_Witness ==
  /\ pc = "file_open"
  /\ i = 2
  /\ Len(devs[2].name) < Len(devs[1].name)
  /\ \E n \in DOMAIN log : log[n].op = "file_open" /\ log[n].dev = 1
  /\ key = StrA
  /\ CStr(buf.bytes) = <<"(", "f", "d", ")", "/", "A">>

\* The same with a second device whose name is longer than the first's.
C17_WitnessLonger ==
  /\ pc = "file_open"
  /\ i = 2
  /\ Len(devs[2].name) > Len(devs[1].name)
  /\ \E n \in DOMAIN log : log[n].op = "file_open" /\ log[n].dev = 1
  /\ key = StrA
  /\ CStr(buf.bytes) = PathOf(devs[2].name, StrA)

\* ----------------------------------------------------------------- C18
\* The test of device i was entered, did not skip the device, and returned
\* without reaching the file open: growing the path buffer failed.
GrowFailed ==
  /\ matcher = "file"
  /\ pc \in {"hook_ret", "end", "done"}
  /\ i \in DOMAIN devs
  /\ Tested(i)
  /\ ~file_skip_floppy(no_floppy, devs[i].name)
  /\ ~(\E n \in DOMAIN log : log[n].op = "file_open" /\ log[n].dev = i)

\* C18: in file mode, when growing the path buffer fails for device i, the
\* test returns non-zero with the allocation error left pending; no device
\* after i is tested, with or without a binding variable; the matches before
\* i stay emitted or bound; no "no such file" error is raised even with a
\* zero count; and the command returns the allocation error.
C18_AllocFailureAborts ==
  /\ AllocFailed => GrowFailed
  /\ GrowFailed =>
    /\ grub_errno = "GRUB_ERR_OUT_OF_MEMORY"
    /\ pc = "hook_ret" => hookret = 1
    /\ grub_errmsg = [text |-> "out of memory", arg |-> StrEmpty]
    /\ \A n \in DOMAIN log : log[n].dev <= i
    /\ ~Binding => (out = CandNames(i - 1) /\ count = Len(out))
    /\ Binding => (count = 0 /\ envlog = << >> /\ \A j \in 1..(i - 1) : ~Cand(j))
    /\ pc = "done" => ret = "GRUB_ERR_OUT_OF_MEMORY"

\* A non-binding file search has returned the allocation error, with no
\* match, after the allocation failed at the first of two devices.
C18_Witness ==
  /\ pc = "done"
  /\ matcher = "file"
  /\ ~Binding
  /\ Len(devs) = 2
  /\ i = 1
  /\ count = 0
  /\ Cand(2)
  /\ ~Tested(2)
  /\ ret = "GRUB_ERR_OUT_OF_MEMORY"
  /\ grub_errmsg.text = "out of memory"

\* The same after a first device that matched and was emitted.
C18_WitnessAfterMatch ==
  /\ pc = "done"
  /\ matcher = "file"
  /\ ~Binding
  /\ Len(devs) = 2
  /\ i = 2
  /\ out = <<devs[1].name>>
  /\ Tested(2)
  /\ ret = "GRUB_ERR_OUT_OF_MEMORY"

\* ----------------------------------------------------------------- C19
\* The error codes that can be pending when a matcher reaches its end.
PendingCodes ==
  {"GRUB_ERR_NONE", "GRUB_ERR_OUT_OF_MEMORY", "GRUB_ERR_FILE_NOT_FOUND",
   "GRUB_ERR_INVALID_COMMAND"} \cup DeviceErrors

\* C19: a label or UUID search that ends with zero matches always returns
\* NotFound with "no such device", whatever error is pending at that point,
\* also when the device list is empty or every device was skipped by the
\* floppy filter; a search that ends with zero matches and something other
\* than NotFound is a file search with an error pending at its end.
C19_MaskingOnlyInFileMode ==
  /\ (pc = "done" /\ matcher = "fs" /\ count = 0) =>
       /\ ret = "GRUB_ERR_FILE_NOT_FOUND"
       /\ grub_errmsg = [text |-> "no such device: %s", arg |-> CmdKey]
  /\ (pc = "done" /\ Started /\ count = 0 /\ ret # "GRUB_ERR_FILE_NOT_FOUND") =>
       /\ matcher = "file"
       /\ ret # "GRUB_ERR_NONE"
       /\ grub_errmsg.text # "no such file: %s"
  /\ pc = "end" =>
       \A e \in PendingCodes :
         /\ fs_not_found(0, e)
         /\ file_not_found(0, e) <=> e = "GRUB_ERR_NONE"

\* A UUID search whose every device was skipped by the floppy filter, though
\* it matches, has returned NotFound.
C19_Witness ==
  /\ pc = "done"
  /\ matcher = "fs"
  /\ is_uuid = 1
  /\ Len(devs) > 0
  /\ \A j \in DOMAIN devs : Excluded(devs[j]) /\ Matches(devs[j])
  /\ count = 0
  /\ ret = "GRUB_ERR_FILE_NOT_FOUND"
  /\ grub_errmsg.text = "no such device: %s"

\* A label search over no device has returned NotFound.
C19_WitnessEmpty ==
  /\ pc = "done"
  /\ matcher = "fs"
  /\ is_uuid = 0
  /\ devs = << >>
  /\ ret = "GRUB_ERR_FILE_NOT_FOUND"
  /\ grub_errmsg.text = "no such device: %s"

\* A file search with zero matches has returned the pending error instead
\* of NotFound.
C19_WitnessMasked ==
  /\ pc = "done"
  /\ matcher = "file"
  /\ count = 0
  /\ ret = "GRUB_ERR_OUT_OF_MEMORY"

\* ----------------------------------------------------------------- C13
\* C13: when the same command has been run a second time over the same
\* devices, whether or not the caller cleared the error the first run
\* returned, the second run has emitted the same identifiers in the same
\* order, made the same variable writes, left the same variable store and
\* returned the same status with the same message as the first.
C13_SameResultTwice ==
  (pc = "done" /\ prev.run = 2) =>
    /\ out = prev.out
    /\ envlog = prev.envlog
    /\ env = prev.env
    /\ ret = prev.ret
    /\ ret # "GRUB_ERR_NONE" => grub_errmsg = prev.msg

\* A label or UUID search that emitted its first device and could not open
\* its second has been run twice.
C13_Witness ==
  /\ pc = "done"
  /\ prev.run = 2
  /\ matcher = "fs"
  /\ Len(devs) = 2
  /\ Len(out) = 1
  /\ out = <<devs[1].name>>
  /\ ~devs[2].canOpen
  /\ prev.out = out
  /\ ret = "GRUB_ERR_NONE"

\* The second run of a file search over no device has finished its
\* enumeration with the first run's NotFound still pending.
C13_WitnessPending ==
  /\ pc = "end"
  /\ prev.run = 2
  /\ matcher = "file"
  /\ devs = << >>
  /\ prev.ret = "GRUB_ERR_FILE_NOT_FOUND"
  /\ grub_errno = "GRUB_ERR_FILE_NOT_FOUND"

\* A binding search that wrote the variable has been run twice.
C13_WitnessBinding ==
  /\ pc = "done"
  /\ prev.run = 2
  /\ Binding
  /\ Len(envlog) = 1
  /\ prev.envlog = envlog
  /\ env[BindingTarget] # NULL

====
